---- MODULE Spec2Model ----
(***************************************************************************)
(* Model of backend/app.py: a Flask application that trains a logistic     *)
(* regression on the Wisconsin breast cancer dataset when the module is    *)
(* imported and then answers prediction requests.                          *)
(*                                                                         *)
(* Numbers.  Feature values are small integers.  The fitted scaler keeps   *)
(* an integer mean and a scale of 1 or 2; a standardised value is counted  *)
(* in half units, so (x - mean) / scale is exact.  The classifier's        *)
(* decision score is counted in units of ln 2, so that the logistic        *)
(* function is the exact fraction 2^k / (1 + 2^k).  Percentages in a       *)
(* response are counted in hundredths of a percent (two decimals).         *)
(***************************************************************************)
EXTENDS Integers, Sequences, FiniteSets, TLC

VARIABLES
  pc,             \* position of the module-level code (lines 124-131)
  started_as,     \* "__main__" (python app.py) or "wsgi" (imported by a server)
  model,          \* global model (line 16)
  scaler,         \* global scaler (line 17)
  feature_names,  \* global feature_names (line 18)
  dataset,        \* load_model's breast_cancer_dataset (line 25)
  split,          \* load_model's X_train / X_test (line 37)
  files,          \* model.pkl and scaler.pkl in the working directory
  req,            \* the request in flight (Flask's request context)
  resp,           \* the response the handler returned for it
  calls           \* library calls the handler has made for it, in order

vars == <<pc, started_as, model, scaler, feature_names, dataset, split,
          files, req, resp, calls>>

globals == <<model, scaler, feature_names>>

----------------------------------------------------------------------------
(* Bounds of the model *)

MaxLen == 31      \* longest 'features' value a request carries
MaxVal == 1       \* finite feature values range over -MaxVal..MaxVal
NSamples == 5     \* rows of the dataset
SatK == 16        \* |score| from which a class probability rounds to 0.00 %

(* Program constants *)

ExpectedLen == 30        \* line 78: len(features) != 30
DatasetFeatures == 30    \* columns of load_breast_cancer(), as line 114 reports

None == [t |-> "None"]

----------------------------------------------------------------------------
(* JSON values of a request body, as request.get_json() returns them *)

Num(v) == [t |-> "num", v |-> v]      \* a finite number
Inf == [t |-> "inf", v |-> 0]         \* 1e999 or Infinity: parsed to float inf
NaN == [t |-> "nan", v |-> 0]         \* NaN: parsed to float nan
Str == [t |-> "str", v |-> 0]         \* a non-numeric string such as "abc"
Bool == [t |-> "bool", v |-> 1]       \* true
List1(v) == [t |-> "list1", v |-> v]  \* the nested list [v]
List2(v) == [t |-> "list2", v |-> v]  \* the nested list [v, v]

ScalarElems == {Num(v) : v \in -MaxVal..MaxVal} \cup {Inf, NaN, Str, Bool}
NestedElems == {List1(0), List2(0)}

Uniform(n, e) == [j \in 1..n |-> e]
WithDev(n, e, i, d) == [j \in 1..n |-> IF j = i THEN d ELSE e]

ListItems ==
  {Uniform(n, e) : n \in 0..MaxLen, e \in ScalarElems \cup NestedElems}
  \cup UNION {{WithDev(n, Num(0), i, d) : i \in {1, n}, d \in ScalarElems} :
                n \in 1..MaxLen}
  \cup {WithDev(n, Num(0), i, d) : n \in {ExpectedLen}, i \in {2}, d \in ScalarElems}
  \cup {WithDev(n, Num(0), 1, e) : n \in {ExpectedLen}, e \in NestedElems}

(* The value under the key 'features' *)
FList(items) == [t |-> "list", len |-> Len(items), items |-> items]
FSized(t, n) == [t |-> t, len |-> n, items |-> <<>>]
FScalar(t) == [t |-> t, len |-> 0, items |-> <<>>]
Absent == FScalar("absent")

FeatureValues ==
  {FList(items) : items \in ListItems}
  \cup {FSized(t, n) : t \in {"str", "obj"}, n \in 0..MaxLen}
  \cup {FScalar(t) : t \in {"null", "num", "bool"}}

(* The parsed body.  n is its truth-relevant size: the number itself, 0/1  *)
(* for false/true, the length of a string or list, the number of keys of   *)
(* an object.  has says how the body holds 'features': as a key of an      *)
(* object, as an item of a list, as a substring of a string.               *)
Body(t, n, has, f) == [t |-> t, n |-> n, has |-> has, features |-> f]

Bodies ==
  {Body("invalid", 0, "none", Absent), Body("null", 0, "none", Absent)}
  \cup {Body(t, n, "none", Absent) : t \in {"num", "bool"}, n \in {0, 1}}
  \cup {Body("num", 5, "none", Absent)}
  \cup {Body("str", n, "none", Absent) : n \in {0, 3}}
  \cup {Body("str", 9, "sub", Absent)}
  \cup {Body("list", n, "none", Absent) : n \in {0, 2}}
  \cup {Body("list", 1, "item", Absent)}
  \cup {Body("obj", n, "none", Absent) : n \in {0, 1}}
  \cup {Body("obj", 1, "key", f) : f \in FeatureValues}
  \cup {Body("obj", 2, "key", FList(Uniform(ExpectedLen, Num(0))))}

Routes == {"index", "features", "predict", "model_info", "health"}

Request(route, body) == [route |-> route, body |-> body]
Idle == Request("idle", Body("null", 0, "none", Absent))
Requests ==
  {Request("predict", b) : b \in Bodies}
  \cup {Request(r, Body("null", 0, "none", Absent)) : r \in Routes \ {"predict"}}

Pending == [status |-> 0]

----------------------------------------------------------------------------
(* Python: an expression either yields a value or raises *)

Ok(v) == [raised |-> FALSE, val |-> v]
Raise(type, msg) == [raised |-> TRUE, type |-> type, msg |-> msg]

(* bool(data), line 73 *)
Truthy(data) ==
  CASE data.t = "null" -> FALSE
    [] OTHER -> data.n # 0

(* 'features' in data, line 73: a number or a boolean is not iterable *)
Contains(data) ==
  CASE data.t \in {"num", "bool"} ->
         Raise("TypeError", "argument of type is not iterable")
    [] data.t = "str" -> Ok(data.has = "sub")
    [] data.t = "list" -> Ok(data.has = "item")
    [] data.t = "obj" -> Ok(data.has = "key")
    [] OTHER -> Ok(FALSE)

(* data['features'], line 76: only an object is indexed by a string *)
GetFeatures(data) ==
  IF data.t = "obj"
    THEN Ok(data.features)
    ELSE Raise("TypeError", "indices must be integers")

(* len(features), line 78 *)
PyLen(f) ==
  IF f.t \in {"str", "obj", "list"}
    THEN Ok(f.len)
    ELSE Raise("TypeError", "object has no len()")

----------------------------------------------------------------------------
(* numpy: np.array(features).reshape(1, -1), line 82 *)

RECURSIVE Flatten(_)
Flatten(items) ==
  IF items = <<>> THEN <<>>
  ELSE LET e == Head(items)
           own == CASE e.t = "list1" -> <<Num(e.v)>>
                    [] e.t = "list2" -> <<Num(e.v), Num(e.v)>>
                    [] OTHER -> <<e>>
       IN own \o Flatten(Tail(items))

Kinds(items) == {items[j].t : j \in 1..Len(items)}

Ragged(items) ==
  /\ Kinds(items) \cap {"list1", "list2"} # {}
  /\ Cardinality(Kinds(items)) > 1

(* A list that mixes numbers and nested lists has no array shape: numpy    *)
(* raises ValueError (release 1.24 and later).                             *)
(* A list of scalars with a string among them becomes an array of strings; *)
(* a string or an object becomes a 0-d array, which reshapes to (1, 1).    *)
np_array(f) ==
  CASE f.t = "list" /\ Ragged(f.items) ->
         Raise("ValueError", "inhomogeneous shape")
    [] f.t = "list" ->
         Ok([dtype |-> IF "str" \in Kinds(f.items) THEN "U" ELSE "float",
             flat |-> Flatten(f.items)])
    [] f.t = "str" -> Ok([dtype |-> "U", flat |-> <<Str>>])
    [] OTHER -> Ok([dtype |-> "O", flat |-> <<Str>>])

----------------------------------------------------------------------------
(* sklearn: the fitted StandardScaler and LogisticRegression *)

(* (x - mean_) / scale_ of one value, in half units; nan stays nan *)
Standardize(s, e) ==
  IF e.t = "nan" THEN NaN ELSE Num(((e.v - s.mean) * 2) \div s.scale)

(* scaler.transform(input_array), line 85.  The array is converted to      *)
(* float64, checked for infinity (nan is allowed and passed through) and   *)
(* for the number of features seen in fit.                                 *)
scaler_transform(s, arr) ==
  CASE s.t = "None" ->
         Raise("AttributeError", "NoneType has no attribute transform")
    [] arr.dtype = "U" ->
         Raise("ValueError", "could not convert string to float")
    [] arr.dtype = "O" ->
         Raise("TypeError", "float() argument must be a string or a number")
    [] \E j \in 1..Len(arr.flat) : arr.flat[j].t = "inf" ->
         Raise("ValueError", "Input X contains infinity")
    [] Len(arr.flat) # s.n_features_in ->
         Raise("ValueError", "X has a different number of features")
    [] OTHER ->
         Ok([j \in 1..Len(arr.flat) |-> Standardize(s, arr.flat[j])])

HasNaN(X) == \E j \in 1..Len(X) : X[j].t = "nan"

RECURSIVE Dot(_, _)
Dot(coef, X) == IF X = <<>> THEN 0 ELSE coef * Head(X).v + Dot(coef, Tail(X))

(* model.decision_function(X): coef_ . x + intercept_, in units of ln 2 *)
decision_function(m, X) == Dot(m.coef, X) + m.intercept

(* model.predict(input_scaled), line 88: classes_[score > 0] *)
model_predict(m, X) ==
  CASE m.t = "None" ->
         Raise("AttributeError", "NoneType has no attribute predict")
    [] HasNaN(X) -> Raise("ValueError", "Input X contains NaN")
    [] OTHER -> Ok(IF decision_function(m, X) > 0 THEN 1 ELSE 0)

RECURSIVE Pow2(_)
Pow2(n) == IF n = 0 THEN 1 ELSE 2 * Pow2(n - 1)

Abs(k) == IF k < 0 THEN -k ELSE k
Min(a, b) == IF a < b THEN a ELSE b

(* model.predict_proba(input_scaled), line 89: p1 = expit(score),          *)
(* p0 = 1 - p1, as fractions n/d with a common d.  Beyond SatK the smaller *)
(* probability is below half of 0.01 %, and the fraction is held at SatK.  *)
model_predict_proba(m, X) ==
  CASE m.t = "None" ->
         Raise("AttributeError", "NoneType has no attribute predict_proba")
    [] HasNaN(X) -> Raise("ValueError", "Input X contains NaN")
    [] OTHER ->
         LET k == decision_function(m, X)
             a == Min(Abs(k), SatK)
             d == 1 + Pow2(a)
             big == [n |-> Pow2(a), d |-> d]
             small == [n |-> 1, d |-> d]
         IN Ok(IF k >= 0 THEN <<small, big>> ELSE <<big, small>>)

----------------------------------------------------------------------------
(* load_model, lines 20-52, called from line 126 *)

(* train_test_split(X, Y, test_size=0.2, random_state=2): a fifth of the   *)
(* rows, rounded up, is held out; the seed fixes which.                    *)
TestSize == (NSamples + 4) \div 5
TestRows == 1..TestSize
TrainRows == (1..NSamples) \ TestRows

(* What fit can produce is not computed here: any of these *)
Means == {0, 1}
Scales == {1, 2}
Coefs == {-1, 1}
Intercepts == {0, 1}

(* lines 25-26 *)
load_dataset ==
  /\ pc = "L25"
  /\ dataset' = [t |-> "Bunch", rows |-> 1..NSamples, n_features |-> DatasetFeatures]
  /\ feature_names' = [t |-> "list", names |-> [j \in 1..DatasetFeatures |-> j]]
  /\ pc' = "L37"
  /\ UNCHANGED <<started_as, model, scaler, split, files, req, resp, calls>>

(* lines 29-37 *)
train_test_split ==
  /\ pc = "L37"
  /\ split' = [t |-> "split", train |-> dataset.rows \cap TrainRows,
               test |-> dataset.rows \cap TestRows]
  /\ pc' = "L41"
  /\ UNCHANGED <<started_as, model, scaler, feature_names, dataset, files,
                 req, resp, calls>>

(* the scaler fitted on every row, the held-out ones included *)
ScalerFitAll == dataset.rows

(* line 41: scaler.fit_transform(X_train) *)
ScalerFitInput == split.train

(* lines 40-42 *)
fit_scaler ==
  /\ pc = "L41"
  /\ \E mean \in Means, scale \in Scales :
       scaler' = [t |-> "StandardScaler", fitted_on |-> ScalerFitInput,
                  mean |-> mean, scale |-> scale,
                  n_features_in |-> dataset.n_features]
  /\ pc' = "L46"
  /\ UNCHANGED <<started_as, model, feature_names, dataset, split, files,
                 req, resp, calls>>

(* lines 45-46: model.fit(X_train_scaled, Y_train) *)
fit_model ==
  /\ pc = "L46"
  /\ \E coef \in Coefs, intercept \in Intercepts :
       model' = [t |-> "LogisticRegression",
                 fitted_on |-> [rows |-> split.train, scaled_by |-> scaler],
                 coef |-> coef, intercept |-> intercept, classes |-> <<0, 1>>]
  /\ pc' = "L49"
  /\ UNCHANGED <<started_as, scaler, feature_names, dataset, split, files,
                 req, resp, calls>>

(* line 49: joblib.dump(model, 'model.pkl'); a failed write ends the import *)
dump_model ==
  /\ pc = "L49"
  /\ \E written \in BOOLEAN :
       IF written
         THEN files' = [files EXCEPT !.model_pkl = model] /\ pc' = "L50"
         ELSE files' = files /\ pc' = "crashed"
  /\ UNCHANGED <<started_as, model, scaler, feature_names, dataset, split,
                 req, resp, calls>>

(* line 50: joblib.dump(scaler, 'scaler.pkl') *)
dump_scaler ==
  /\ pc = "L50"
  /\ \E written \in BOOLEAN :
       IF written
         THEN files' = [files EXCEPT !.scaler_pkl = scaler] /\ pc' = "L127"
         ELSE files' = files /\ pc' = "crashed"
  /\ UNCHANGED <<started_as, model, scaler, feature_names, dataset, split,
                 req, resp, calls>>

(* lines 127-131: the module's last statements.  Run as a script, app.run  *)
(* starts the server; imported, the importing server starts dispatching    *)
(* once the import has returned.                                           *)
start_server ==
  /\ pc = "L127"
  /\ pc' = "serving"
  /\ UNCHANGED <<started_as, model, scaler, feature_names, dataset, split,
                 files, req, resp, calls>>

(* a server that dispatches before load_model has been called *)
ServingEarly == pc \in {"L25", "serving"}

(* Requests are dispatched only by a started server *)
Serving == pc = "serving"

----------------------------------------------------------------------------
(* predict, lines 67-107 *)

Return(status, body, made) ==
  [kind |-> "return", status |-> status, body |-> body, calls |-> made]
Raised(exc, made) == [kind |-> "raise", exc |-> exc, calls |-> made]
Resp(status, via, body) == [status |-> status, via |-> via, body |-> body]

(* only a vector that is too short is refused *)
LenAtLeast(n) == n >= ExpectedLen

(* line 78 *)
LenOk(n) == n = ExpectedLen

(* the two names exchanged *)
LabelSwapped(prediction) == IF prediction = 1 THEN "Malignant" ELSE "Benign"

(* line 96 *)
Label(prediction) == IF prediction = 1 THEN "Benign" ELSE "Malignant"

(* the smaller of the two *)
py_min(proba) == IF proba[2].n < proba[1].n THEN proba[2] ELSE proba[1]

(* max(prediction_proba), line 92: the first of the largest *)
py_max(proba) == IF proba[2].n > proba[1].n THEN proba[2] ELSE proba[1]

Times100(p) == [n |-> 100 * p.n, d |-> p.d]

RoundHalfEven(a, b) ==
  LET q == a \div b
      r == a % b
  IN IF 2 * r < b THEN q
     ELSE IF 2 * r > b THEN q + 1
     ELSE IF q % 2 = 0 THEN q ELSE q + 1

(* round(x, 2), lines 97-100, in hundredths *)
Round2(x) == RoundHalfEven(100 * x.n, x.d)

(* lines 92-102 *)
Result(prediction, proba) ==
  [prediction |-> prediction,
   label |-> Label(prediction),
   confidence |-> Round2(Times100(py_max(proba))),
   probabilities |-> [malignant |-> Round2(Times100(proba[1])),
                      benign |-> Round2(Times100(proba[2]))]]

(* the raw array handed on in place of the scaled one *)
input_unscaled(s, arr) ==
  IF scaler_transform(s, arr).raised
    THEN scaler_transform(s, arr)
    ELSE Ok(arr.flat)

(* line 85 *)
input_scaled(s, arr) == scaler_transform(s, arr)

(* lines 82-104 *)
infer(features, m, s) ==
  LET a == np_array(features) IN
  IF a.raised THEN Raised(a, <<>>)
  ELSE
    LET x == input_scaled(s, a.val)
        c1 == IF s.t = "None" THEN <<>> ELSE <<"scaler.transform">>
    IN
    IF x.raised THEN Raised(x, c1)
    ELSE
      LET p == model_predict(m, x.val)
          c2 == IF m.t = "None" THEN c1 ELSE c1 \o <<"model.predict">>
      IN
      IF p.raised THEN Raised(p, c2)
      ELSE
        LET q == model_predict_proba(m, x.val)
            c3 == c2 \o <<"model.predict_proba">>
        IN
        IF q.raised THEN Raised(q, c3)
        ELSE Return(200, Result(p.val, q.val), c3)

(* lines 71-104: the body of the try *)
predict_body(data, m, s) ==
  IF data.t = "invalid"
    THEN Raised(Raise("BadRequest", "Failed to decode JSON object"), <<>>)
  ELSE IF ~Truthy(data)
    THEN Return(400, [error |-> <<"No features provided">>], <<>>)
  ELSE
    LET c == Contains(data) IN
    IF c.raised THEN Raised(c, <<>>)
    ELSE IF ~c.val
      THEN Return(400, [error |-> <<"No features provided">>], <<>>)
    ELSE
      LET g == GetFeatures(data) IN
      IF g.raised THEN Raised(g, <<>>)
      ELSE
        LET l == PyLen(g.val) IN
        IF l.raised THEN Raised(l, <<>>)
        ELSE IF ~LenOk(l.val)
          THEN Return(400, [error |-> <<"Expected 30 features, got ", l.val>>], <<>>)
        ELSE infer(g.val, m, s)

(* except ValueError *)
CaughtValueError(exc) == exc.type = "ValueError"

(* line 106: except Exception *)
ExceptionTypes == {"BadRequest", "TypeError", "ValueError", "AttributeError"}
Caught(exc) == exc.type \in ExceptionTypes

(* lines 70-107: an exception the handler does not catch is answered by    *)
(* Flask's own error page                                                  *)
predict_response(data, m, s) ==
  LET o == predict_body(data, m, s) IN
  IF o.kind = "return" THEN Resp(o.status, "return", o.body)
  ELSE IF Caught(o.exc) THEN Resp(500, "except", [error |-> <<o.exc.msg>>])
  ELSE Resp(500, "flask", [html |-> "Internal Server Error"])

(* a handler that drops the scaler *)
handler_resets == scaler' = None /\ UNCHANGED <<model, feature_names>>

(* No handler declares a global: the module's globals are only read *)
handler_globals == UNCHANGED <<model, scaler, feature_names>>

predict ==
  /\ req.route = "predict"
  /\ resp.status = 0
  /\ resp' = predict_response(req.body, model, scaler)
  /\ calls' = predict_body(req.body, model, scaler).calls
  /\ handler_globals
  /\ UNCHANGED <<pc, started_as, dataset, split, files, req>>

----------------------------------------------------------------------------
(* The other handlers *)

(* lines 54-57: send_from_directory answers 404 when the build is absent *)
index ==
  /\ req.route = "index"
  /\ resp.status = 0
  /\ \E built \in BOOLEAN :
       resp' = IF built
                 THEN Resp(200, "return", [file |-> "index.html"])
                 ELSE Resp(404, "flask", [html |-> "Not Found"])
  /\ handler_globals
  /\ UNCHANGED <<pc, started_as, dataset, split, files, req, calls>>

(* lines 59-65: len(None) raises, and nothing here catches it *)
get_features ==
  /\ req.route = "features"
  /\ resp.status = 0
  /\ resp' = IF feature_names.t = "None"
               THEN Resp(500, "flask", [html |-> "Internal Server Error"])
               ELSE Resp(200, "return", [features |-> feature_names.names,
                                         count |-> Len(feature_names.names)])
  /\ handler_globals
  /\ UNCHANGED <<pc, started_as, dataset, split, files, req, calls>>

(* lines 112-117; 'Malignant (0)' is the pair of a name and a code *)
ModelInfoBody ==
  [model_type |-> "Logistic Regression",
   features_count |-> DatasetFeatures,
   classes |-> <<[name |-> "Malignant", code |-> 0],
                 [name |-> "Benign", code |-> 1]>>]

(* lines 109-117 *)
model_info ==
  /\ req.route = "model_info"
  /\ resp.status = 0
  /\ resp' = Resp(200, "return", ModelInfoBody)
  /\ handler_globals
  /\ UNCHANGED <<pc, started_as, dataset, split, files, req, calls>>

(* lines 119-122 *)
health ==
  /\ req.route = "health"
  /\ resp.status = 0
  /\ resp' = Resp(200, "return",
                  [status |-> "healthy", model_loaded |-> model.t # "None"])
  /\ handler_globals
  /\ UNCHANGED <<pc, started_as, dataset, split, files, req, calls>>

(* The server dispatches a request to its handler *)
arrive ==
  /\ Serving
  /\ req.route = "idle"
  /\ \E r \in Requests : req' = r
  /\ resp' = Pending
  /\ calls' = <<>>
  /\ UNCHANGED <<pc, started_as, model, scaler, feature_names, dataset,
                 split, files>>

(* The response is sent and the request context is torn down *)
respond ==
  /\ req.route # "idle"
  /\ resp.status # 0
  /\ req' = Idle
  /\ resp' = Pending
  /\ calls' = <<>>
  /\ UNCHANGED <<pc, started_as, model, scaler, feature_names, dataset,
                 split, files>>

----------------------------------------------------------------------------

Init ==
  /\ pc = "L25"
  /\ started_as \in {"__main__", "wsgi"}
  /\ model = None
  /\ scaler = None
  /\ feature_names = None
  /\ dataset = None
  /\ split = None
  /\ files = [model_pkl |-> None, scaler_pkl |-> None]
  /\ req = Idle
  /\ resp = Pending
  /\ calls = <<>>

Next ==
  \/ load_dataset
  \/ train_test_split
  \/ fit_scaler
  \/ fit_model
  \/ dump_model
  \/ dump_scaler
  \/ start_server
  \/ arrive
  \/ predict
  \/ index
  \/ get_features
  \/ model_info
  \/ health
  \/ respond

Spec == Init /\ [][Next]_vars

----------------------------------------------------------------------------
(* Properties *)

Handled(route) == req.route = route /\ resp.status # 0

(* the body is an object with the key 'features' *)
HasFeatures == req.body.t = "obj" /\ req.body.has = "key"

ItemKinds(f) == {f.items[j].t : j \in 1..Len(f.items)}

(* a list of 30 JSON numbers; 1e999 and NaN are among the numbers *)
Numbers30(f) == f.t = "list" /\ f.len = ExpectedLen /\ ItemKinds(f) \subseteq {"num", "inf", "nan"}

(* a list of 30 numbers that are finite once parsed *)
Finite30(f) == f.t = "list" /\ f.len = ExpectedLen /\ ItemKinds(f) = {"num"}

AllCalls == <<"scaler.transform", "model.predict", "model.predict_proba">>

(* the standardised request vector, from the scaler's parameters *)
Scaled(f) == [j \in 1..Len(f.items) |-> Standardize(scaler, f.items[j])]

C2_InvalidNeverScaled ==
  (Handled("predict") /\ HasFeatures /\ ~Numbers30(req.body.features))
    => (resp.status # 200 /\ calls = <<>>)

(* C3: a 'features' value with a length N other than 30 is answered 400   *)
(* with 'Expected 30 features, got N', and no library call is made.       *)
C3_WrongLength400 ==
  (/\ Handled("predict") /\ HasFeatures
   /\ req.body.features.t \in {"str", "obj", "list"}
   /\ req.body.features.len # ExpectedLen) =>
    /\ resp.status = 400
    /\ resp.body.error = <<"Expected 30 features, got ", req.body.features.len>>
    /\ calls = <<>>

C3_Witness ==
  /\ Handled("predict") /\ HasFeatures
  /\ req.body.features.t = "list"
  /\ req.body.features.len = ExpectedLen + 1
  /\ resp.status = 400

(* C4, as stated: a parsed body that is falsy or does not contain the key *)
(* 'features' is answered 400 with 'No features provided', and no library *)
(* call is made.                                                           *)
C4_NoFeatures400 ==
  (Handled("predict") /\ req.body.t # "invalid" /\ ~HasFeatures) =>
    /\ resp.status = 400
    /\ resp.body.error = <<"No features provided">>
    /\ calls = <<>>

C6_LoadOrder ==
  /\ split.t # "None" => dataset.t # "None"
  /\ scaler.t # "None" =>
       /\ split.t # "None"
       /\ scaler.fitted_on = split.train
       /\ scaler.fitted_on \cap split.test = {}
  /\ model.t # "None" =>
       /\ scaler.t # "None"
       /\ model.fitted_on = [rows |-> split.train, scaled_by |-> scaler]
  /\ files.model_pkl.t # "None" => (model.t # "None" /\ files.model_pkl = model)
  /\ files.scaler_pkl.t # "None" =>
       (files.model_pkl.t # "None" /\ files.scaler_pkl = scaler)
  /\ pc \in {"L127", "serving"} =>
       /\ model.t = "LogisticRegression"
       /\ scaler.t = "StandardScaler"
       /\ feature_names.t = "list"
       /\ files = [model_pkl |-> model, scaler_pkl |-> scaler]

C6_Witness ==
  /\ pc = "L127"
  /\ files.scaler_pkl.t = "StandardScaler"
  /\ split.test # {}

(* C7: however the module is started, a request is served only after      *)
(* load_model has returned: the globals are set, health reports           *)
(* model_loaded true, and predict never fails on a missing scaler or      *)
(* model.                                                                  *)
C7_LoadedBeforeServing ==
  /\ req.route # "idle" =>
       (model.t # "None" /\ scaler.t # "None" /\ feature_names.t # "None")
  /\ Handled("health") => resp.body.model_loaded
  /\ Handled("features") => resp.status = 200
  /\ (Handled("predict") /\ resp.via = "except") =>
       resp.body.error \notin
         {<<"NoneType has no attribute transform">>,
          <<"NoneType has no attribute predict">>,
          <<"NoneType has no attribute predict_proba">>}

C7_Witness ==
  /\ Handled("health")
  /\ started_as = "wsgi"
  /\ resp.body.model_loaded

(* C8: predict answers every request with one JSON response of status     *)
(* 200, 400 or 500; an exception raised anywhere in the body is answered  *)
(* 500 with its message; 200 is answered only for a length of 30 after    *)
(* the scaler and both classifier calls have returned.                    *)
C8_AlwaysAnswered ==
  Handled("predict") =>
    /\ resp.status \in {200, 400, 500}
    /\ resp.via \in {"return", "except"}
    /\ LET o == predict_body(req.body, model, scaler) IN
         o.kind = "raise" =>
           /\ resp.status = 500
           /\ resp.via = "except"
           /\ resp.body.error = <<o.exc.msg>>
    /\ resp.status = 200 =>
         /\ HasFeatures
         /\ req.body.features.len = ExpectedLen
         /\ calls = AllCalls

C8_Witness ==
  /\ Handled("predict")
  /\ resp.status = 500
  /\ resp.via = "except"
  /\ resp.body.error = <<"object has no len()">>

(* C9: in a 200 response, prediction is 0 or 1, label is 'Benign' exactly *)
(* when prediction is 1 and 'Malignant' otherwise; the pair is a class    *)
(* that model-info publishes, and probabilities.malignant is the          *)
(* probability of class 0, probabilities.benign that of class 1.          *)
C9_LabelEncoding ==
  (Handled("predict") /\ resp.status = 200) =>
    /\ resp.body.prediction \in {0, 1}
    /\ resp.body.label = "Benign" <=> resp.body.prediction = 1
    /\ resp.body.label = "Malignant" <=> resp.body.prediction # 1
    /\ \E i \in 1..2 :
         /\ ModelInfoBody.classes[i].code = resp.body.prediction
         /\ ModelInfoBody.classes[i].name = resp.body.label
    /\ Finite30(req.body.features) =>
         LET P == model_predict_proba(model, Scaled(req.body.features)).val IN
         \A i \in 1..2 :
           LET shown == IF ModelInfoBody.classes[i].name = "Malignant"
                          THEN resp.body.probabilities.malignant
                          ELSE resp.body.probabilities.benign
           IN model.classes[i] = ModelInfoBody.classes[i].code
              /\ shown = Round2(Times100(P[i]))

C9_Witness ==
  /\ Handled("predict")
  /\ resp.status = 200
  /\ resp.body.prediction = 0
  /\ resp.body.label = "Malignant"
  /\ resp.body.probabilities.malignant > resp.body.probabilities.benign

(* C10: in a 200 response, confidence is the larger of the two reported   *)
(* percentages, which sum to 100 up to rounding; it lies between 50 and   *)
(* 100 and is the percentage reported for the class that label names.     *)
C10_Confidence ==
  (Handled("predict") /\ resp.status = 200) =>
    LET mal == resp.body.probabilities.malignant
        ben == resp.body.probabilities.benign
        conf == resp.body.confidence
    IN /\ conf = IF mal > ben THEN mal ELSE ben
       /\ conf >= 5000 /\ conf <= 10000
       /\ Abs(mal + ben - 10000) <= 1
       /\ resp.body.label = "Benign" => (conf = ben /\ ben >= mal)
       /\ resp.body.label = "Malignant" => (conf = mal /\ mal >= ben)

C10_Witness ==
  /\ Handled("predict")
  /\ resp.status = 200
  /\ resp.body.confidence > 5000
  /\ resp.body.confidence < 10000
  /\ resp.body.label = "Benign"
====
